---------------------------- MODULE Spec2Model ----------------------------
(***************************************************************************)
(* Statement parsing and reconciliation engine of budget-tracker           *)
(* (src/budget_tracker/parsers/parser.py), the prototype parser it grew    *)
(* from (src/parser.py) and the reference-table builder                    *)
(* (src/budget_tracker/core/builder.py).                                   *)
(*                                                                         *)
(* Text is held the way the code walks it: a text is the sequence of its   *)
(* lines (text.splitlines()), a line is a sequence of characters, and a    *)
(* character is a one-character string.  The accented letters the program  *)
(* names are written as two-sign ASCII tokens, each standing for ONE       *)
(* character: a' e' i' c, a~ o~ and their capitals A' E' I' C, A~ O~.      *)
(*                                                                         *)
(* Amounts are exact decimals counted in units of 1/Scale of a real; the   *)
(* code holds them in binary floating point, whose rounding error (below   *)
(* 1e-9 for the amounts of a statement) is not modelled.                   *)
(***************************************************************************)
EXTENDS Integers, Sequences, FiniteSets, TLC

VARIABLES
    text,              \* the statement: text.splitlines()
    who_expended,      \* the label attached at export time
    pc,                \* position inside parse_file / the parser loop
    dialect,           \* None, "generic" or "bb": the parser the sniffer chose
    lines,             \* the normalized lines the classifier loop walks
    idx,               \* number of lines of `lines` already consumed
    transactions,      \* the list `transactions` of the running parser
    current_category,  \* None or a string
    result,            \* None or the dict returned by the parser
    error,             \* None or the exception that left parse_file
    diff,              \* None or parse_file's local diff
    stdout,            \* the verdict lines parse_file printed
    csv,               \* None or the rows export_to_csv wrote
    returned,          \* what parse_file handed back to its caller
    amount,            \* codec: the amount being encoded
    brl,               \* codec: None or format_brl(amount)
    decoded,           \* codec: None or parse_money_value(brl)
    proto_pc,          \* position inside the prototype's parse_statement
    proto_lines,       \* prototype: its normalized lines
    proto_idx,         \* prototype: number of lines already consumed
    proto_transactions,\* prototype: its list `transactions`
    proto_category,    \* prototype: its current_category
    proto_result,      \* None or what the prototype's parse_statement gave
    headers,           \* generate_references: its argument headers
    data_rows,         \* generate_references: its argument data_rows
    ref_pc,            \* position inside generate_references
    ref_i,             \* number of items the running loop has consumed
    reference_map,     \* the dict, as its (key, categories) items in order
    reference_table,   \* the list reference_table
    conflicts,         \* the list conflicts (one key per message)
    ref_error,         \* None or the exception that left generate_references
    references_data    \* None or the table generate_references returned

vars == <<text, who_expended, pc, dialect, lines, idx, transactions,
          current_category, result, error, diff, stdout, csv, returned,
          amount, brl, decoded, proto_pc, proto_lines, proto_idx,
          proto_transactions, proto_category, proto_result, headers, data_rows, ref_pc,
          ref_i, reference_map, reference_table, conflicts, ref_error,
          references_data>>

parseVars == <<text, who_expended, pc, dialect, lines, idx, transactions,
               current_category, result, error, diff, stdout, csv, returned>>

codecVars == <<amount, brl, decoded>>

protoVars == <<proto_pc, proto_lines, proto_idx, proto_transactions,
               proto_category, proto_result>>

refVars == <<headers, data_rows, ref_pc, ref_i, reference_map, reference_table,
             conflicts, ref_error, references_data>>

\* an optional value: None, or Some(x) holding x
None == <<>>
Some(x) == <<x>>
Get(o) == o[1]

------------------------------------------------------------------------------
(* Characters and the str methods the parser uses                           *)

AsciiUpper == <<"A", "B", "C", "D", "E", "F", "G", "H", "I", "J", "K", "L", "M",
                "N", "O", "P", "Q", "R", "S", "T", "U", "V", "W", "X", "Y", "Z">>
AsciiLower == <<"a", "b", "c", "d", "e", "f", "g", "h", "i", "j", "k", "l", "m",
                "n", "o", "p", "q", "r", "s", "t", "u", "v", "w", "x", "y", "z">>
AccentUpper == <<"A'", "E'", "I'", "C,", "A~", "O~">>
AccentLower == <<"a'", "e'", "i'", "c,", "a~", "o~">>
DigitChars == <<"0", "1", "2", "3", "4", "5", "6", "7", "8", "9">>

Range(s) == {s[i] : i \in DOMAIN s}

UpperAZ == Range(AsciiUpper)
Digits == Range(DigitChars)
\* the character class [A-Za-zÀ-ÿ] of the category-header pattern
Letters == UpperAZ \cup Range(AsciiLower) \cup Range(AccentUpper) \cup Range(AccentLower)
\* the character class [\d.,]
NumChars == Digits \cup {".", ","}

IsSpace(c) == c \in {" ", "\t"}

LowerAll == AsciiLower \o AccentLower
UpperAll == AsciiUpper \o AccentUpper
UpperOf == [c \in Range(LowerAll) |->
              UpperAll[CHOOSE i \in DOMAIN LowerAll : LowerAll[i] = c]]

\* str.upper()
Upper(s) == [i \in DOMAIN s |-> IF s[i] \in DOMAIN UpperOf THEN UpperOf[s[i]] ELSE s[i]]

\* s.startswith(p)
StartsWith(s, p) == Len(s) >= Len(p) /\ SubSeq(s, 1, Len(p)) = p

\* p occurs in s at position i
OccursAt(s, p, i) == i + Len(p) - 1 <= Len(s) /\ SubSeq(s, i, i + Len(p) - 1) = p

\* p in s
Contains(s, p) == \E i \in 1..(Len(s) - Len(p) + 1) : OccursAt(s, p, i)

\* str.strip(), str.rstrip()
IsBlank(s) == \A i \in DOMAIN s : IsSpace(s[i])
FirstInk(s) == CHOOSE i \in DOMAIN s : ~IsSpace(s[i]) /\ \A j \in 1..(i - 1) : IsSpace(s[j])
LastInk(s) == CHOOSE i \in DOMAIN s : ~IsSpace(s[i]) /\ \A j \in (i + 1)..Len(s) : IsSpace(s[j])
RStrip(s) == IF IsBlank(s) THEN <<>> ELSE SubSeq(s, 1, LastInk(s))
Strip(s) == IF IsBlank(s) THEN <<>> ELSE SubSeq(s, FirstInk(s), LastInk(s))

\* str.replace(old, new) for one-character old and new ("" deletes)
Replace(s, old, new) ==
    LET F[i \in 0..Len(s)] ==
          IF i = 0 THEN <<>>
          ELSE IF s[i] = old THEN F[i - 1] \o new ELSE Append(F[i - 1], s[i])
    IN  F[Len(s)]

\* end of the longest run of characters of class C starting at position i
\* (i - 1 when s[i] is not in C): greedy C*
RunEnd(s, i, C) ==
    LET stops == {j \in i..Len(s) : s[j] \notin C}
    IN  IF stops = {} THEN (IF i > Len(s) THEN i - 1 ELSE Len(s))
        ELSE (CHOOSE j \in stops : \A k \in stops : j <= k) - 1

Spaces == {" ", "\t"}

------------------------------------------------------------------------------
(* Money codec                                                              *)

\* amounts are integers counting 1/Scale of a real (thousandths)
Scale == 10 * 10 * 10

Abs(n) == IF n < 0 THEN -n ELSE n

DigitVal(c) == (CHOOSE i \in DOMAIN DigitChars : DigitChars[i] = c) - 1

\* the number a digit string spells ("" spells 0)
NatOf(s) ==
    LET F[i \in 0..Len(s)] == IF i = 0 THEN 0 ELSE 10 * F[i - 1] + DigitVal(s[i])
    IN  F[Len(s)]

\* the decimal digits of n >= 0
DigitsOf(n) ==
    LET F[k \in 0..n] == IF k < 10 THEN <<DigitChars[k + 1]>>
                         ELSE Append(F[k \div 10], DigitChars[(k % 10) + 1])
    IN  F[n]

\* float(s) for s over the characters - . and the digits: a record
\* [ok |-> FALSE] when float raises ValueError, else the value in 1/Scale.
\* A fraction longer than the Scale's three digits is cut (no modelled text
\* has one).
PyFloat(s) ==
    LET neg == Len(s) > 0 /\ s[1] = "-"
        body == IF neg THEN Tail(s) ELSE s
        dots == {i \in DOMAIN body : body[i] = "."}
        dot == IF dots = {} THEN Len(body) + 1 ELSE CHOOSE i \in dots : TRUE
        ip == SubSeq(body, 1, dot - 1)
        fp == SubSeq(body, dot + 1, Len(body))
        f3 == SubSeq(fp \o <<"0", "0", "0">>, 1, 3)
        wellFormed == /\ Cardinality(dots) <= 1
                      /\ \A i \in DOMAIN body : body[i] \in Digits \cup {"."}
                      /\ Len(ip) + Len(fp) >= 1
        mag == NatOf(ip) * Scale + NatOf(f3)
    IN  IF wellFormed THEN [ok |-> TRUE, v |-> IF neg THEN -mag ELSE mag]
        ELSE [ok |-> FALSE]

\* a variant that removes only the first thousands separator
parse_money_value_first_dot(value) ==
    LET dots == {i \in DOMAIN value : value[i] = "."}
        first == IF dots = {} THEN 0 ELSE CHOOSE i \in dots : \A j \in dots : i <= j
        cut == IF first = 0 THEN value
               ELSE SubSeq(value, 1, first - 1) \o SubSeq(value, first + 1, Len(value))
    IN  PyFloat(Replace(cut, ",", <<".">>))

\* parse_money_value: float(value.replace(".", "").replace(",", "."))
parse_money_value(value) ==
    PyFloat(Replace(Replace(value, ".", <<>>), ",", <<".">>))

\* the integer part of n >= 0 with a comma between groups of three digits
Grouped(n) ==
    LET F[k \in 0..n] ==
          IF k < 1000 THEN DigitsOf(k)
          ELSE F[k \div 1000] \o <<",">>
               \o SubSeq(<<"0", "0">> \o DigitsOf(k % 1000),
                         Len(DigitsOf(k % 1000)), Len(DigitsOf(k % 1000)) + 2)
    IN  F[n]

\* the amount rounded to hundredths (format spec ".2f"); on an exact decimal
\* tie the code rounds by the binary expansion of the float, here to even:
\* no modelled amount is a tie
RoundCents(a) ==
    LET step == Scale \div 100
        q == a \div step
        r == a % step
    IN  IF 2 * r > step \/ (2 * r = step /\ q % 2 = 1) THEN q + 1 ELSE q

\* f"{amount:,.2f}"
PyFormat(a) ==
    LET c == RoundCents(Abs(a))
        frac == SubSeq(<<"0">> \o DigitsOf(c % 100), Len(DigitsOf(c % 100)),
                       Len(DigitsOf(c % 100)) + 1)
    IN  (IF a < 0 THEN <<"-">> ELSE <<>>) \o Grouped(c \div 100) \o <<".">> \o frac

\* a variant that leaves the thousands placeholder in place
format_brl_keeps_placeholder(a) ==
    Replace(Replace(PyFormat(a), ",", <<"X">>), ".", <<",">>)

\* format_brl
format_brl(a) ==
    Replace(Replace(Replace(PyFormat(a), ",", <<"X">>), ".", <<",">>), "X", <<".">>)

------------------------------------------------------------------------------------------------------------------------------------------------------
(* The phrases and markers the parser names                                 *)

S_Pagina == <<"P", "a'", "g", "i", "n", "a">>
S_Refunds == <<"R", "e", "f", "u", "n", "d", "s">>
S_Uncategorized == <<"U", "n", "c", "a", "t", "e", "g", "o", "r", "i", "z", "e", "d">>
S_BR == <<"B", "R">>
S_TOTAL_ROW == <<"T", "O", "T", "A", "L">>
P_DATA_DESCRICAO == <<"D", "A", "T", "A", " ", "D", "E", "S", "C", "R", "I", "C,", "A~", "O", " ", "P", "A", "I'", "S", " ", "V", "A", "L", "O", "R">>
P_SALDO == <<"S", "A", "L", "D", "O", " ", "F", "A", "T", "U", "R", "A", " ", "A", "N", "T", "E", "R", "I", "O", "R">>
P_SUBTOTAL == <<"S", "U", "B", "T", "O", "T", "A", "L">>
P_TOTAL_DA_FATURA == <<"T", "O", "T", "A", "L", " ", "D", "A", " ", "F", "A", "T", "U", "R", "A">>
P_PGTO == <<"P", "G", "T", "O", " ", "D", "E", "B", "I", "T", "O", " ", "C", "O", "N", "T", "A">>
P_PAGAMENTOS == <<"P", "A", "G", "A", "M", "E", "N", "T", "O", "S", "/", "C", "R", "E'", "D", "I", "T", "O", "S">>
P_DATA_TRANSACOES == <<"D", "A", "T", "A", " ", " ", " ", " ", " ", "T", "R", "A", "N", "S", "A", "C,", "O~", "E", "S">>
P_TOTAL == <<"T", "O", "T", "A", "L">>
P_DASHES == <<"-", "-", "-", "-">>
S_DEMONSTRATIVO == <<"D", "E", "M", "O", "N", "S", "T", "R", "A", "T", "I", "V", "O">>
S_RESUMO == <<"R", "E", "S", "U", "M", "O", " ", "E", "M", " ", "R", "E", "A", "L">>
S_SISBB == <<"S", "I", "S", "B", "B", " ", "-", " ", "S", "i", "s", "t", "e", "m", "a", " ", "d", "e", " ", "I", "n", "f", "o", "r", "m", "a", "c,", "o~", "e", "s", " ", "B", "a", "n", "c", "o", " ", "d", "o", " ", "B", "r", "a", "s", "i", "l">>
S_FATURA_CARTAO == <<"F", "a", "t", "u", "r", "a", " ", "d", "o", " ", "C", "a", "r", "t", "a~", "o", " ", "d", "e", " ", "C", "r", "e'", "d", "i", "t", "o">>
S_TotalDaFatura == <<"T", "o", "t", "a", "l", " ", "d", "a", " ", "F", "a", "t", "u", "r", "a">>
S_Total == <<"T", "o", "t", "a", "l">>
S_RS == <<"R", "$">>

------------------------------------------------------------------------------
(* The regular expressions, matched the way the backtracking engine does    *)

NoMatch == [matched |-> FALSE]

\* -?[\d.,]+$ starting at position j
ValueToEnd(s, j) ==
    LET d == IF j <= Len(s) /\ s[j] = "-" THEN j + 1 ELSE j
    IN  d <= Len(s) /\ \A i \in d..Len(s) : s[i] \in NumChars

\* \s*R\$\s*(?P<value>-?[\d.,]+)$ starting at position j: 0, or where the
\* value starts
TailValueStart(s, j) ==
    LET r == RunEnd(s, j, Spaces) + 1
        v == RunEnd(s, r + 2, Spaces) + 1
    IN  IF OccursAt(s, S_RS, r) /\ ValueToEnd(s, v) THEN v ELSE 0

\* (?:\s+(?P<country>[A-Z]{2})\s+) starting at position j: 0, or where the
\* country starts
GroupCountryStart(s, j) ==
    LET c == RunEnd(s, j, Spaces) + 1
    IN  IF /\ c > j
           /\ c + 2 <= Len(s)
           /\ s[c] \in UpperAZ /\ s[c + 1] \in UpperAZ
           /\ IsSpace(s[c + 2])
        THEN c ELSE 0

\* what follows the description when it ends at position k: the optional
\* country group is tried first, then the tail without it
GenericRest(s, k) ==
    LET c == GroupCountryStart(s, k + 1)
        vg == IF c = 0 THEN 0 ELSE TailValueStart(s, c + 2)
        vp == TailValueStart(s, k + 1)
    IN  IF vg # 0 THEN [ok |-> TRUE, country |-> Some(SubSeq(s, c, c + 1)), v |-> vg]
        ELSE IF vp # 0 THEN [ok |-> TRUE, country |-> None, v |-> vp]
        ELSE [ok |-> FALSE]

\* TRANSACTION_RE.match(line): the date, then \s+ (longest first), then the
\* description .+? (shortest first), then GenericRest
TRANSACTION_RE(s) ==
    LET dateOK == /\ Len(s) >= 6
                  /\ s[1] \in Digits /\ s[2] \in Digits /\ s[3] = "/"
                  /\ s[4] \in Digits /\ s[5] \in Digits
                  /\ IsSpace(s[6])
        e == RunEnd(s, 6, Spaces)
        cands == {pk \in (7..(e + 1)) \X (7..Len(s)) :
                    pk[2] >= pk[1] /\ GenericRest(s, pk[2]).ok}
        best == CHOOSE pk \in cands : \A o \in cands :
                    \/ pk[1] > o[1]
                    \/ (pk[1] = o[1] /\ pk[2] <= o[2])
        rest == GenericRest(s, best[2])
    IN  IF ~dateOK \/ cands = {} THEN NoMatch
        ELSE [matched |-> TRUE,
              date |-> SubSeq(s, 1, 5),
              description |-> SubSeq(s, best[1], best[2]),
              country |-> rest.country,
              value |-> SubSeq(s, rest.v, Len(s))]

\* what follows the bank description when it ends at position k:
\* \s*(?P<country>[A-Z]{2})\s+(?P<value>-?[\d.,]+)\s+[\d.,]+$
BBRest(s, k) ==
    LET c == RunEnd(s, k + 1, Spaces) + 1
        v == RunEnd(s, c + 2, Spaces) + 1
        d == IF v <= Len(s) /\ s[v] = "-" THEN v + 1 ELSE v
        ve == RunEnd(s, d, NumChars)
        f == RunEnd(s, ve + 1, Spaces) + 1
    IN  IF /\ c + 1 <= Len(s) /\ s[c] \in UpperAZ /\ s[c + 1] \in UpperAZ
           /\ v > c + 2
           /\ ve >= d
           /\ f > ve + 1
           /\ f <= Len(s) /\ RunEnd(s, f, NumChars) = Len(s)
        THEN [ok |-> TRUE, country |-> SubSeq(s, c, c + 1), value |-> SubSeq(s, v, ve)]
        ELSE [ok |-> FALSE]

\* BB_CREDIT_TRANSACTION_RE.match(line)
BB_CREDIT_TRANSACTION_RE(s) ==
    LET dateOK == /\ Len(s) >= 10
                  /\ s[1] \in Digits /\ s[2] \in Digits /\ s[3] = "."
                  /\ s[4] \in Digits /\ s[5] \in Digits /\ s[6] = "."
                  /\ \A i \in 7..10 : s[i] \in Digits
        ks == {k \in 11..Len(s) : BBRest(s, k).ok}
        k0 == CHOOSE k \in ks : \A o \in ks : k <= o
        rest == BBRest(s, k0)
    IN  IF ~dateOK \/ ks = {} THEN NoMatch
        ELSE [matched |-> TRUE,
              date |-> SubSeq(s, 1, 10),
              description |-> SubSeq(s, 11, k0),
              country |-> rest.country,
              value |-> rest.value]

\* Total da Fatura\s+R\$\s*([\d.,]+) tried at position i: the group, or <<>>
TotalAt(s, i) ==
    LET r == RunEnd(s, i + Len(S_TotalDaFatura), Spaces) + 1
        v == RunEnd(s, r + 2, Spaces) + 1
        ve == RunEnd(s, v, NumChars)
    IN  IF /\ OccursAt(s, S_TotalDaFatura, i)
           /\ r > i + Len(S_TotalDaFatura)
           /\ OccursAt(s, S_RS, r)
           /\ ve >= v
        THEN SubSeq(s, v, ve) ELSE <<>>

\* TOTAL_RE.search(line): the leftmost match
TOTAL_RE(s) ==
    LET at == {i \in DOMAIN s : TotalAt(s, i) # <<>>}
    IN  IF at = {} THEN NoMatch
        ELSE [matched |-> TRUE,
              group1 |-> TotalAt(s, CHOOSE i \in at : \A j \in at : i <= j)]

\* start of the longest run of characters of class C ending at position j
RunStart(s, j, C) ==
    LET stops == {i \in 1..j : s[i] \notin C}
    IN  IF stops = {} THEN (IF j < 1 THEN j + 1 ELSE 1)
        ELSE (CHOOSE i \in stops : \A k \in stops : i >= k) + 1

\* BB_CREDIT_TOTAL_RE.search(line):
\* ^\s*Total\s+[\d\s]+\s+([\d.,]+)\s+[\d.,]+$
\* The last field runs to the end of the line and the group is the field
\* before it; what lies between "Total" and the group must split into
\* \s+ [\d\s]+ \s+ : three characters or more, digits and blanks only, a
\* blank first and a blank last.
BB_CREDIT_TOTAL_RE(s) ==
    LET t == RunEnd(s, 1, Spaces) + 1
        a == t + Len(S_Total)
        fs == RunStart(s, Len(s), NumChars)
        ge == RunStart(s, fs - 1, Spaces) - 1
        gs == RunStart(s, ge, NumChars)
        r == gs - 1
    IN  IF /\ OccursAt(s, S_Total, t)
           /\ fs <= Len(s)
           /\ ge < fs - 1
           /\ ge >= 1 /\ gs <= ge
           /\ r >= a + 2
           /\ IsSpace(s[a]) /\ IsSpace(s[r])
           /\ \A i \in a..r : s[i] \in Digits \cup Spaces
        THEN [matched |-> TRUE, group1 |-> SubSeq(s, gs, ge)]
        ELSE NoMatch

\* re.match(r"^[A-Za-zÀ-ÿ][A-Za-zÀ-ÿ\s]*[A-Za-zÀ-ÿ]$", line)
CATEGORY_RE(s) ==
    /\ Len(s) >= 2
    /\ s[1] \in Letters /\ s[Len(s)] \in Letters
    /\ \A i \in DOMAIN s : s[i] \in Letters \cup Spaces

------------------------------------------------------------------------------
(* The two parsers: sniffing, normalizing, the classifier loop, the totals  *)

\* is_bb_credit_card: both fingerprints occur in the text (neither holds a
\* line break, so each occurs inside one line)
is_bb_credit_card(t) ==
    /\ \E i \in DOMAIN t : Contains(t[i], S_SISBB)
    /\ \E i \in DOMAIN t : Contains(t[i], S_FATURA_CARTAO)

\* parse_statement's list comprehension: the page-marker test reads the raw
\* line, the kept line is the stripped one
NormalizeGeneric(t) ==
    LET F[i \in 0..Len(t)] ==
          IF i = 0 THEN <<>>
          ELSE IF Strip(t[i]) # <<>> /\ ~StartsWith(t[i], S_Pagina)
               THEN Append(F[i - 1], Strip(t[i]))
               ELSE F[i - 1]
    IN  F[Len(t)]

\* a variant of the section loop that steps over the end marker and goes on
ExtractSectionNoBreak(t) ==
    LET F[i \in 0..Len(t)] ==
          IF i = 0 THEN [open |-> FALSE, raw |-> <<>>]
          ELSE LET st == F[i - 1] IN
               IF Contains(t[i], S_DEMONSTRATIVO) THEN [st EXCEPT !.open = TRUE]
               ELSE IF Contains(t[i], S_RESUMO) THEN st
               ELSE IF st.open /\ Strip(t[i]) # <<>>
                    THEN [st EXCEPT !.raw = Append(st.raw, RStrip(t[i]))]
                    ELSE st
    IN  F[Len(t)].raw

\* parse_bb_credit_card's section loop: raw_lines after each line of the text
\* (st.open: in_section, st.broke: the loop has left at the end marker)
ExtractSection(t) ==
    LET F[i \in 0..Len(t)] ==
          IF i = 0 THEN [open |-> FALSE, broke |-> FALSE, raw |-> <<>>]
          ELSE LET st == F[i - 1] IN
               IF st.broke THEN st
               ELSE IF Contains(t[i], S_DEMONSTRATIVO) THEN [st EXCEPT !.open = TRUE]
               ELSE IF Contains(t[i], S_RESUMO) THEN [st EXCEPT !.broke = TRUE]
               ELSE IF st.open /\ Strip(t[i]) # <<>>
                    THEN [st EXCEPT !.raw = Append(st.raw, RStrip(t[i]))]
                    ELSE st
    IN  F[Len(t)].raw

\* lines = [line.strip() for line in raw_lines]
NormalizeBB(t) ==
    LET raw == ExtractSection(t) IN [i \in DOMAIN raw |-> Strip(raw[i])]

IGNORE_GENERIC == {P_DATA_DESCRICAO, P_SALDO, P_SUBTOTAL, P_TOTAL_DA_FATURA}
IGNORE_BB == {P_DATA_TRANSACOES, P_SALDO, P_SUBTOTAL, P_TOTAL, P_DASHES}

\* a variant of the generic loop body that tests the category header and the
\* refund marker before the ignore list
GenericLineKindHeaderFirst(line) ==
    LET upper_line == Upper(line) IN
    IF CATEGORY_RE(line) /\ ~Contains(line, S_RS) /\ ~Contains(line, <<"/">>)
    THEN "header"
    ELSE IF Contains(upper_line, P_PAGAMENTOS) THEN "refund"
    ELSE IF \E phrase \in IGNORE_GENERIC : Contains(upper_line, phrase) THEN "ignore"
    ELSE IF Contains(upper_line, P_PGTO) THEN "ignore"
    ELSE IF TRANSACTION_RE(line).matched THEN "transaction"
    ELSE "unmatched"

\* the branch the body of parse_statement's loop takes on a line
GenericLineKind(line) ==
    LET upper_line == Upper(line) IN
    IF \E phrase \in IGNORE_GENERIC : Contains(upper_line, phrase) THEN "ignore"
    ELSE IF Contains(upper_line, P_PGTO) THEN "ignore"
    ELSE IF Contains(upper_line, P_PAGAMENTOS) THEN "refund"
    ELSE IF CATEGORY_RE(line) /\ ~Contains(line, S_RS) /\ ~Contains(line, <<"/">>)
         THEN "header"
    ELSE IF TRANSACTION_RE(line).matched THEN "transaction"
    ELSE "unmatched"

\* the branch the body of parse_bb_credit_card's loop takes on a line
BBLineKind(line) ==
    LET upper_line == Upper(line) IN
    IF \E phrase \in IGNORE_BB : Contains(upper_line, phrase) THEN "ignore"
    ELSE IF Contains(upper_line, P_PAGAMENTOS) THEN "refund"
    ELSE IF CATEGORY_RE(line) /\ ~(\E i \in DOMAIN line : line[i] \in Digits)
         THEN "header"
    ELSE IF BB_CREDIT_TRANSACTION_RE(line).matched THEN "transaction"
    ELSE "unmatched"

\* a variant that files every transaction under the default
CategoryAlwaysDefault(cat) == S_Uncategorized

\* current_category or "Uncategorized"
CategoryOrDefault(cat) ==
    IF cat = None \/ Get(cat) = <<>> THEN S_Uncategorized ELSE Get(cat)

\* the dict parse_statement appends for a matched line whose amount decoded
GenericTransaction(d, amt, cat) ==
    [date |-> d.date,
     description |-> Strip(d.description),
     category |-> CategoryOrDefault(cat),
     country |-> Strip(IF d.country = None \/ Get(d.country) = <<>>
                       THEN S_BR ELSE Get(d.country)),
     amount |-> amt]

\* the dict parse_bb_credit_card appends
BBTransaction(d, amt, cat) ==
    [date |-> d.date,
     description |-> Strip(d.description),
     category |-> CategoryOrDefault(cat),
     country |-> d.country,
     amount |-> amt]

\* sum(t["amount"] for t in transactions)
SumAmounts(ts) ==
    LET F[i \in 0..Len(ts)] == IF i = 0 THEN 0 ELSE F[i - 1] + ts[i].amount
    IN  F[Len(ts)]

\* total_re.search(line) for the dialect's pattern
TotalSearch(d, line) == IF d = "bb" THEN BB_CREDIT_TOTAL_RE(line) ELSE TOTAL_RE(line)

\* extract_total(text, total_re): the first line the pattern matches decides;
\* [raised |-> TRUE] when its amount does not decode (ValueError leaves the
\* function), else the total, None when no line matches
extract_total(t, d) ==
    LET hits == {i \in DOMAIN t : TotalSearch(d, t[i]).matched}
        first == CHOOSE i \in hits : \A j \in hits : i <= j
        v == parse_money_value(TotalSearch(d, t[first]).group1)
    IN  IF hits = {} THEN [raised |-> FALSE, total |-> None]
        ELSE IF v.ok THEN [raised |-> FALSE, total |-> Some(v.v)]
        ELSE [raised |-> TRUE]

ValueError(where) == Some([type |-> "ValueError", where |-> where])
TypeError(where) == Some([type |-> "TypeError", where |-> where])

------------------------------------------------------------------------------
(* The statements parse_file is run on                                      *)

MaxLines == 3

\* 'Restaurantes'
L_Restaurantes == <<"R", "e", "s", "t", "a", "u", "r", "a", "n", "t", "e", "s">>
\* '01/02 PADARIA DO ZE    R$ 25,00'
L_Padaria == <<"0", "1", "/", "0", "2", " ", "P", "A", "D", "A", "R", "I", "A", " ", "D", "O", " ", "Z", "E", " ", " ", " ", " ", "R", "$", " ", "2", "5", ",", "0", "0">>
\* 'Total da Fatura R$ 25,00'
L_Total25 == <<"T", "o", "t", "a", "l", " ", "d", "a", " ", "F", "a", "t", "u", "r", "a", " ", "R", "$", " ", "2", "5", ",", "0", "0">>
\* 'Total da Fatura R$ 30,00'
L_Total30 == <<"T", "o", "t", "a", "l", " ", "d", "a", " ", "F", "a", "t", "u", "r", "a", " ", "R", "$", " ", "3", "0", ",", "0", "0">>
\* 'PAGAMENTOS/CRE'DITOS'
L_Pagamentos == <<"P", "A", "G", "A", "M", "E", "N", "T", "O", "S", "/", "C", "R", "E'", "D", "I", "T", "O", "S">>
\* '05/02 REEMBOLSO X  R$ -10,00'
L_Reembolso == <<"0", "5", "/", "0", "2", " ", "R", "E", "E", "M", "B", "O", "L", "S", "O", " ", "X", " ", " ", "R", "$", " ", "-", "1", "0", ",", "0", "0">>
\* '01/02 Subtotal R$ 25,00'
L_SubtotalTxn == <<"0", "1", "/", "0", "2", " ", "S", "u", "b", "t", "o", "t", "a", "l", " ", "R", "$", " ", "2", "5", ",", "0", "0">>
\* 'Subtotal'
L_Subtotal == <<"S", "u", "b", "t", "o", "t", "a", "l">>
\* 'Subtotal Pagamentos/Cre'ditos'
L_SubtotalPagamentos == <<"S", "u", "b", "t", "o", "t", "a", "l", " ", "P", "a", "g", "a", "m", "e", "n", "t", "o", "s", "/", "C", "r", "e'", "d", "i", "t", "o", "s">>
\* ' Pa'gina'
L_PaginaIndented == <<" ", "P", "a'", "g", "i", "n", "a">>
\* 'Pa'gina 2'
L_Pagina2 == <<"P", "a'", "g", "i", "n", "a", " ", "2">>
\* '  '
L_Blank == <<" ", " ">>
\* '01/02 X R$ ..'
L_BadAmount == <<"0", "1", "/", "0", "2", " ", "X", " ", "R", "$", " ", ".", ".">>
\* 'Total da Fatura R$ ..'
L_BadTotal == <<"T", "o", "t", "a", "l", " ", "d", "a", " ", "F", "a", "t", "u", "r", "a", " ", "R", "$", " ", ".", ".">>
\* '03/02 Pgto Debito Conta R$ 5,00'
L_Pgto == <<"0", "3", "/", "0", "2", " ", "P", "g", "t", "o", " ", "D", "e", "b", "i", "t", "o", " ", "C", "o", "n", "t", "a", " ", "R", "$", " ", "5", ",", "0", "0">>
\* '01/02 Y R$ 0,004'
L_SubCent == <<"0", "1", "/", "0", "2", " ", "Y", " ", "R", "$", " ", "0", ",", "0", "0", "4">>
\* 'DEMONSTRATIVO'
L_Demonstrativo == <<"D", "E", "M", "O", "N", "S", "T", "R", "A", "T", "I", "V", "O">>
\* 'RESUMO EM REAL'
L_Resumo == <<"R", "E", "S", "U", "M", "O", " ", "E", "M", " ", "R", "E", "A", "L">>
\* '01.02.2024DESCRICAO XYZ US 100,00 100,00'
L_BBTxn == <<"0", "1", ".", "0", "2", ".", "2", "0", "2", "4", "D", "E", "S", "C", "R", "I", "C", "A", "O", " ", "X", "Y", "Z", " ", "U", "S", " ", "1", "0", "0", ",", "0", "0", " ", "1", "0", "0", ",", "0", "0">>
\* '01.02.2024LOJA 5,00 5,00'
L_BBLoja == <<"0", "1", ".", "0", "2", ".", "2", "0", "2", "4", "L", "O", "J", "A", " ", "5", ",", "0", "0", " ", "5", ",", "0", "0">>
\* 'Total 1 100,00 100,00'
L_BBTotal == <<"T", "o", "t", "a", "l", " ", "1", " ", "1", "0", "0", ",", "0", "0", " ", "1", "0", "0", ",", "0", "0">>
\* '01.02.2024X BR .. 1,00'
L_BBBadAmount == <<"0", "1", ".", "0", "2", ".", "2", "0", "2", "4", "X", " ", "B", "R", " ", ".", ".", " ", "1", ",", "0", "0">>
\* 'Total 1 .. 1,00'
L_BBBadTotal == <<"T", "o", "t", "a", "l", " ", "1", " ", ".", ".", " ", "1", ",", "0", "0">>
\* '01.02.2024Total BR 5,00 5,00'
L_BBTotalTxn == <<"0", "1", ".", "0", "2", ".", "2", "0", "2", "4", "T", "o", "t", "a", "l", " ", "B", "R", " ", "5", ",", "0", "0", " ", "5", ",", "0", "0">>
\* 'Pa'gina'
L_Pagina == <<"P", "a'", "g", "i", "n", "a">>
\* 'RESUMO EM REAL DO DEMONSTRATIVO'
L_ResumoDoDemonstrativo == <<"R", "E", "S", "U", "M", "O", " ", "E", "M", " ", "R", "E", "A", "L", " ", "D", "O", " ", "D", "E", "M", "O", "N", "S", "T", "R", "A", "T", "I", "V", "O">>

BBPreamble == <<S_SISBB, S_FATURA_CARTAO>>

\* The statements are drawn family by family: a family is the lines that
\* come first (pre) and the lines the rest is made of (pool).
\*   1  categories, refunds, transactions and declared totals (generic)
\*   2  ignore-list lines shaped like headers, markers and transactions
\*   3  blank and pagination lines
\*   4  amounts that do not decode
\*   5  a bank statement inside its section
\*   6  a bank statement and its section markers
\*   7  a bank statement with a line that holds both section markers
Families ==
    <<[pre |-> <<>>,
       pool |-> {L_Restaurantes, L_Padaria, L_Total25, L_Total30, L_Pagamentos,
                 L_Reembolso, L_SubCent}],
      [pre |-> <<>>,
       pool |-> {L_Restaurantes, L_Padaria, L_SubtotalTxn, L_Subtotal,
                 L_SubtotalPagamentos, L_Pgto}],
      [pre |-> <<>>,
       pool |-> {L_Restaurantes, L_Padaria, L_PaginaIndented, L_Pagina2, L_Blank}],
      [pre |-> <<>>,
       pool |-> {L_Restaurantes, L_Padaria, L_Total25, L_BadAmount, L_BadTotal}],
      [pre |-> BBPreamble \o <<L_Demonstrativo>>,
       pool |-> {L_Restaurantes, L_BBTxn, L_BBLoja, L_BBTotal, L_Pagamentos,
                 L_Resumo, L_BBTotalTxn, L_Pagina}],
      [pre |-> BBPreamble,
       pool |-> {L_Demonstrativo, L_Resumo, L_Restaurantes, L_BBTxn,
                 L_BBBadAmount, L_BBBadTotal}],
      [pre |-> BBPreamble,
       pool |-> {L_Demonstrativo, L_Resumo, L_ResumoDoDemonstrativo, L_BBTxn,
                 L_Restaurantes}]>>

SeqsUpTo(S, n) == UNION {[1..k -> S] : k \in 0..n}

Texts ==
    UNION {{Families[f].pre \o b : b \in SeqsUpTo(Families[f].pool, MaxLines)} :
             f \in DOMAIN Families}

\* the prototype has not been called
ProtoIdle ==
    /\ proto_pc = "idle" /\ proto_lines = <<>> /\ proto_idx = 0
    /\ proto_transactions = <<>>
    /\ proto_category = None /\ proto_result = None

\* generate_references has not been called
RefIdle ==
    /\ headers = <<>> /\ data_rows = <<>> /\ ref_pc = "idle" /\ ref_i = 0
    /\ reference_map = <<>> /\ reference_table = <<>> /\ conflicts = <<>>
    /\ ref_error = None /\ references_data = None

Init ==
    /\ text \in Texts
    /\ who_expended = <<"A", "n", "a">>
    /\ pc = "start"
    /\ dialect = None
    /\ lines = <<>>
    /\ idx = 0
    /\ transactions = <<>>
    /\ current_category = None
    /\ result = None
    /\ error = None
    /\ diff = None
    /\ stdout = <<>>
    /\ csv = None
    /\ returned = None
    /\ amount = 0 /\ brl = None /\ decoded = None
    /\ ProtoIdle
    /\ RefIdle

------------------------------------------------------------------------------
(* parse_file on one statement                                              *)

\* abs(total_captured - expected_total) < 0.01, without the abs
WithinToleranceSigned(tc, et) == (tc - et) * 100 < Scale

\* abs(result["total_captured"] - result["expected_total"]) < 0.01
WithinTolerance(tc, et) == Abs(tc - et) * 100 < Scale

\* the difference taken the other way round
MismatchDiffReversed(tc, et) == et - tc

\* diff = result["total_captured"] - result["expected_total"]
MismatchDiff(tc, et) == tc - et

Say(m, a) == [msg |-> m, arg |-> a]

\* the two lines parse_file prints before it looks at the totals
Summary(r) ==
    <<Say("Captured transactions", DigitsOf(Len(r.transactions))),
      Say("Sum of captured items", PyFormat(r.total_captured))>>

\* the rows export_to_csv writes: the header, one row per transaction, the
\* TOTAL row (which names no "who")
CsvRows(ts, who) ==
    <<[date |-> "date", who |-> "who", description |-> "description",
       category |-> "category", country |-> "country", amount |-> "amount"]>>
    \o [i \in DOMAIN ts |->
          [date |-> ts[i].date, who |-> who, description |-> ts[i].description,
           category |-> ts[i].category, country |-> ts[i].country,
           amount |-> format_brl(ts[i].amount)]]
    \o <<[date |-> <<>>, who |-> <<>>, description |-> S_TOTAL_ROW,
          category |-> <<>>, country |-> <<>>,
          amount |-> format_brl(SumAmounts(ts))]>>

\* parse_file reads the text, the sniffer picks parse_statement, and the
\* parser normalizes the lines
BeginParseStatement ==
    /\ pc = "start"
    /\ ~is_bb_credit_card(text)
    /\ dialect' = "generic"
    /\ lines' = NormalizeGeneric(text)
    /\ idx' = 0
    /\ transactions' = <<>>
    /\ current_category' = None
    /\ pc' = "loop"
    /\ UNCHANGED <<text, who_expended, result, error, diff, stdout, csv, returned>>
    /\ UNCHANGED <<codecVars, refVars, protoVars>>

\* the sniffer picks parse_bb_credit_card, which isolates the section
BeginParseBB ==
    /\ pc = "start"
    /\ is_bb_credit_card(text)
    /\ dialect' = "bb"
    /\ lines' = NormalizeBB(text)
    /\ idx' = 0
    /\ transactions' = <<>>
    /\ current_category' = None
    /\ pc' = "loop"
    /\ UNCHANGED <<text, who_expended, result, error, diff, stdout, csv, returned>>
    /\ UNCHANGED <<codecVars, refVars, protoVars>>

\* one pass of the body of parse_statement's loop
ParseStatementStep ==
    /\ pc = "loop" /\ dialect = "generic" /\ idx < Len(lines)
    /\ LET line == lines[idx + 1]
           kind == GenericLineKind(line)
           d == TRANSACTION_RE(line)
           amt == parse_money_value(d.value)
       IN  /\ current_category' =
                 IF kind = "refund" THEN Some(S_Refunds)
                 ELSE IF kind = "header" THEN Some(Strip(line))
                 ELSE current_category
           /\ IF kind = "transaction" /\ ~amt.ok
              THEN /\ pc' = "raised"
                   /\ error' = ValueError("transaction")
                   /\ UNCHANGED <<transactions, idx>>
              ELSE /\ transactions' =
                         IF kind = "transaction"
                         THEN Append(transactions,
                                     GenericTransaction(d, amt.v, current_category))
                         ELSE transactions
                   /\ idx' = idx + 1
                   /\ UNCHANGED <<pc, error>>
    /\ UNCHANGED <<text, who_expended, dialect, lines, result, diff, stdout, csv, returned>>
    /\ UNCHANGED <<codecVars, refVars, protoVars>>

\* one pass of the body of parse_bb_credit_card's loop
ParseBBStep ==
    /\ pc = "loop" /\ dialect = "bb" /\ idx < Len(lines)
    /\ LET line == lines[idx + 1]
           kind == BBLineKind(line)
           d == BB_CREDIT_TRANSACTION_RE(line)
           amt == parse_money_value(d.value)
       IN  /\ current_category' =
                 IF kind = "refund" THEN Some(S_Refunds)
                 ELSE IF kind = "header" THEN Some(Strip(line))
                 ELSE current_category
           /\ IF kind = "transaction" /\ ~amt.ok
              THEN /\ pc' = "raised"
                   /\ error' = ValueError("transaction")
                   /\ UNCHANGED <<transactions, idx>>
              ELSE /\ transactions' =
                         IF kind = "transaction"
                         THEN Append(transactions,
                                     BBTransaction(d, amt.v, current_category))
                         ELSE transactions
                   /\ idx' = idx + 1
                   /\ UNCHANGED <<pc, error>>
    /\ UNCHANGED <<text, who_expended, dialect, lines, result, diff, stdout, csv, returned>>
    /\ UNCHANGED <<codecVars, refVars, protoVars>>

\* after the loop: the sum, extract_total on the raw text, the returned dict
EndParse ==
    /\ pc = "loop" /\ idx = Len(lines)
    /\ LET et == extract_total(text, dialect) IN
       IF et.raised
       THEN /\ pc' = "raised"
            /\ error' = ValueError("extract_total")
            /\ UNCHANGED result
       ELSE /\ pc' = "parsed"
            /\ result' = Some([transactions |-> transactions,
                               total_captured |-> SumAmounts(transactions),
                               expected_total |-> et.total])
            /\ UNCHANGED error
    /\ UNCHANGED <<text, who_expended, dialect, lines, idx, transactions,
                   current_category, diff, stdout, csv, returned>>
    /\ UNCHANGED <<codecVars, refVars, protoVars>>

\* expected_total is None: the ERROR line, and a bare return
ReportNoTotal ==
    /\ pc = "parsed"
    /\ Get(result).expected_total = None
    /\ stdout' = Summary(Get(result)) \o <<Say("ERROR: Could not find total", <<>>)>>
    /\ returned' = None
    /\ pc' = "done"
    /\ UNCHANGED <<text, who_expended, dialect, lines, idx, transactions,
                   current_category, result, error, diff, csv>>
    /\ UNCHANGED <<codecVars, refVars, protoVars>>

\* the totals agree: the SUCCESS line and export_to_csv; the function ends
\* without a return statement
ReportSuccess ==
    /\ pc = "parsed"
    /\ Get(result).expected_total # None
    /\ WithinTolerance(Get(result).total_captured, Get(Get(result).expected_total))
    /\ stdout' = Summary(Get(result))
                 \o <<Say("Statement total (PDF)", PyFormat(Get(Get(result).expected_total))),
                      Say("SUCCESS", <<>>),
                      Say("CSV exported successfully", <<>>)>>
    /\ csv' = Some(CsvRows(Get(result).transactions, who_expended))
    /\ returned' = None
    /\ pc' = "done"
    /\ UNCHANGED <<text, who_expended, dialect, lines, idx, transactions,
                   current_category, result, error, diff>>
    /\ UNCHANGED <<codecVars, refVars, protoVars>>

\* the totals differ: the FAILURE line with the difference, no export
ReportFailure ==
    /\ pc = "parsed"
    /\ Get(result).expected_total # None
    /\ ~WithinTolerance(Get(result).total_captured, Get(Get(result).expected_total))
    /\ diff' = Some(MismatchDiff(Get(result).total_captured,
                                 Get(Get(result).expected_total)))
    /\ stdout' = Summary(Get(result))
                 \o <<Say("Statement total (PDF)", PyFormat(Get(Get(result).expected_total))),
                      Say("FAILURE", PyFormat(Get(diff'))),
                      Say("CSV was NOT generated", <<>>)>>
    /\ returned' = None
    /\ pc' = "done"
    /\ UNCHANGED <<text, who_expended, dialect, lines, idx, transactions,
                   current_category, result, error, csv>>
    /\ UNCHANGED <<codecVars, refVars, protoVars>>

\* the command-line entry calls parse_file(file_path) with one argument:
\* the call itself raises TypeError
CliParse ==
    /\ pc = "start"
    /\ pc' = "raised"
    /\ error' = TypeError("parse_file")
    /\ UNCHANGED <<text, who_expended, dialect, lines, idx, transactions,
                   current_category, result, diff, stdout, csv, returned>>
    /\ UNCHANGED <<codecVars, refVars, protoVars>>

\* the branch the body of the prototype's loop (src/parser.py) takes on a
\* line.  Its payment test is the chained comparison
\* "PGTO DEBITO CONTA" in upper_line in line, which Python reads as
\* ("PGTO DEBITO CONTA" in upper_line) and (upper_line in line).
ProtoLineKind(line) ==
    LET upper_line == Upper(line) IN
    IF \E phrase \in IGNORE_GENERIC : Contains(upper_line, phrase) THEN "ignore"
    ELSE IF Contains(upper_line, P_PGTO) /\ Contains(line, upper_line) THEN "ignore"
    ELSE IF Contains(upper_line, P_PAGAMENTOS) THEN "refund"
    ELSE IF CATEGORY_RE(line) /\ ~Contains(line, S_RS) /\ ~Contains(line, <<"/">>)
         THEN "header"
    ELSE IF TRANSACTION_RE(line).matched THEN "transaction"
    ELSE "unmatched"

\* the prototype's parse_statement is called on the text the packaged
\* parse_statement has been run on, and normalizes the lines
PrototypeBegin ==
    /\ dialect = "generic"
    /\ pc \in {"done", "raised"}
    /\ proto_pc = "idle"
    /\ proto_pc' = "loop"
    /\ proto_lines' = NormalizeGeneric(text)
    /\ proto_idx' = 0
    /\ proto_transactions' = <<>>
    /\ proto_category' = None
    /\ UNCHANGED proto_result
    /\ UNCHANGED <<parseVars, codecVars, refVars>>

\* what one pass of the prototype's loop does with a line, given the branch
\* it takes (kind), the match of TRANSACTION_RE (d) and the decoded amount
\* (amt); a ValueError leaves the function
PrototypeApply(line, kind, d, amt) ==
    /\ proto_category' =
          IF kind = "refund" THEN Some(S_Refunds)
          ELSE IF kind = "header" THEN Some(Strip(line))
          ELSE proto_category
    /\ IF kind = "transaction" /\ ~amt.ok
       THEN /\ proto_pc' = "ended"
            /\ proto_result' = Some([raised |-> TRUE])
            /\ UNCHANGED <<proto_transactions, proto_idx>>
       ELSE /\ proto_transactions' =
                  IF kind = "transaction"
                  THEN Append(proto_transactions,
                              GenericTransaction(d, amt.v, proto_category))
                  ELSE proto_transactions
            /\ proto_idx' = proto_idx + 1
            /\ UNCHANGED <<proto_pc, proto_result>>

\* one pass of the body of the prototype's loop
PrototypeStep ==
    /\ proto_pc = "loop" /\ proto_idx < Len(proto_lines)
    /\ LET line == proto_lines[proto_idx + 1] IN
       PrototypeApply(line, ProtoLineKind(line), TRANSACTION_RE(line),
                      parse_money_value(TRANSACTION_RE(line).value))
    /\ UNCHANGED proto_lines
    /\ UNCHANGED <<parseVars, codecVars, refVars>>

\* after the prototype's loop: the sum, extract_total, the returned dict
PrototypeEnd ==
    /\ proto_pc = "loop" /\ proto_idx = Len(proto_lines)
    /\ LET et == extract_total(text, "generic") IN
       proto_result' =
          IF et.raised THEN Some([raised |-> TRUE])
          ELSE Some([raised |-> FALSE,
                     value |-> [transactions |-> proto_transactions,
                                total_captured |-> SumAmounts(proto_transactions),
                                expected_total |-> et.total]])
    /\ proto_pc' = "ended"
    /\ UNCHANGED <<proto_lines, proto_idx, proto_transactions, proto_category>>
    /\ UNCHANGED <<parseVars, codecVars, refVars>>

Next ==
    \/ BeginParseStatement
    \/ BeginParseBB
    \/ ParseStatementStep
    \/ ParseBBStep
    \/ EndParse
    \/ ReportNoTotal
    \/ ReportSuccess
    \/ ReportFailure
    \/ CliParse
    \/ PrototypeBegin
    \/ PrototypeStep
    \/ PrototypeEnd

Spec == Init /\ [][Next]_vars

------------------------------------------------------------------------------
(* Properties of parse_file                                                 *)

Printed(m) == \E i \in DOMAIN stdout : stdout[i].msg = m

\* the reconciliation outcome parse_file reported
Outcome ==
    IF Printed("SUCCESS") THEN "Reconciled"
    ELSE IF Printed("FAILURE") THEN "Mismatch"
    ELSE IF Printed("ERROR: Could not find total") THEN "Indeterminate"
    ELSE "none"

\* C1: export_to_csv is invoked only when expected_total is present and
\* abs(total_captured - expected_total) < 0.01; with the total absent or the
\* difference 0.01 or more it is never invoked.
C1_ExportOnlyWhenReconciled ==
    csv # None =>
        /\ result # None
        /\ Get(result).expected_total # None
        /\ Abs(Get(result).total_captured - Get(Get(result).expected_total)) * 100 < Scale

\* a reconciled statement with a transaction has been exported
C1_Witness ==
    /\ csv # None
    /\ Len(Get(csv)) >= 3
    /\ Outcome = "Reconciled"

\* C2: when reconciliation blocks the export, parse_file still returns the
\* parsed data (transactions, total_captured, expected_total) to its caller.
C2_BlockedOutcomeReturnsData ==
    (pc = "done" /\ Outcome \in {"Indeterminate", "Mismatch"}) => returned = result

\* C3: with expected_total present the outcome is Reconciled exactly when
\* abs(total_captured - expected_total) < 0.01, and otherwise Mismatch with
\* diff = total_captured - expected_total, negative when less was captured
\* than declared; nothing but the two totals decides it.
C3_OutcomeFromTotals ==
    (pc = "done" /\ Get(result).expected_total # None) =>
        LET tc == Get(result).total_captured
            et == Get(Get(result).expected_total)
        IN  IF Abs(tc - et) * 100 < Scale
            THEN Outcome = "Reconciled" /\ diff = None
            ELSE /\ Outcome = "Mismatch"
                 /\ diff = Some(tc - et)
                 /\ (tc < et <=> Get(diff) < 0)

\* captured 25.00 against declared 30.00: Mismatch with diff = -5.00
C3_Witness ==
    /\ pc = "done"
    /\ Get(result).total_captured = 25 * Scale
    /\ Get(result).expected_total = Some(30 * Scale)
    /\ Outcome = "Mismatch"
    /\ diff = Some(-5 * Scale)

\* the lines of the dialect that set the category, as the loop files them
SetsCategory(d, line) ==
    (IF d = "bb" THEN BBLineKind(line) ELSE GenericLineKind(line)) \in {"refund", "header"}

\* the category the lines before position n leave: that of the last
\* category-setting line among them, "Uncategorized" when there is none
CategoryBefore(d, ls, n) ==
    LET setters == {j \in 1..(n - 1) : SetsCategory(d, ls[j])}
        last == CHOOSE j \in setters : \A k \in setters : j >= k
    IN  IF setters = {} THEN S_Uncategorized
        ELSE IF Contains(Upper(ls[last]), P_PAGAMENTOS) THEN S_Refunds
        ELSE Strip(ls[last])

\* C4: each emitted Transaction's category is the value set by the last
\* category-setting line before its own line (the trimmed header text, or
\* "Refunds" for a PAGAMENTOS/CREDITOS marker), "Uncategorized" when none
\* precedes it; no later line changes a transaction already emitted.
C4_CategoryFromPrecedingLines ==
    [][pc = "loop" =>
         /\ Len(transactions') >= Len(transactions)
         /\ SubSeq(transactions', 1, Len(transactions)) = transactions
         /\ Len(transactions') > Len(transactions) =>
              /\ Len(transactions') = Len(transactions) + 1
              /\ transactions'[Len(transactions')].category =
                     CategoryBefore(dialect, lines, idx + 1)]_vars

\* a transaction filed under a header keeps its category after a later
\* refund marker has been read
C4_Witness ==
    /\ pc = "loop" /\ idx = 3
    /\ Len(transactions) = 1
    /\ transactions[1].category = L_Restaurantes
    /\ current_category = Some(S_Refunds)

\* equality of two characters up to letter case
SameLetter(a, b) == Upper(<<a>>) = Upper(<<b>>)

\* the line holds the phrase, letter case aside
HoldsPhrase(line, phrase) ==
    \E i \in 1..(Len(line) - Len(phrase) + 1) :
        \A j \in DOMAIN phrase : SameLetter(line[i + j - 1], phrase[j])

\* the ignore-list phrases of a dialect
IgnorePhrases(d) == IF d = "bb" THEN IGNORE_BB ELSE IGNORE_GENERIC \cup {P_PGTO}

HoldsIgnorePhrase(d, line) == \E phrase \in IgnorePhrases(d) : HoldsPhrase(line, phrase)

\* C5: a line holding an ignore-list phrase of the active dialect, in any
\* letter case, yields no Transaction and leaves current_category as it was,
\* also when it matches the transaction grammar, the category-header pattern
\* or the refund marker: the ignore check comes first.
C5_IgnoredLineChangesNothing ==
    [][(pc = "loop" /\ idx < Len(lines) /\ HoldsIgnorePhrase(dialect, lines[idx + 1])) =>
         /\ transactions' = transactions
         /\ current_category' = current_category
         /\ error' = error]_vars

\* after a header, three ignore-list lines have been read: one shaped like
\* a transaction, one like a header, one holding the refund marker
C5_Witness ==
    /\ pc = "loop" /\ dialect = "generic" /\ idx = 3
    /\ lines[1] = L_Restaurantes
    /\ {lines[2], lines[3]} \in {{L_SubtotalTxn, L_Subtotal},
                                 {L_SubtotalTxn, L_SubtotalPagamentos}}
    /\ TRANSACTION_RE(L_SubtotalTxn).matched
    /\ CATEGORY_RE(L_Subtotal)
    /\ transactions = <<>>
    /\ current_category = Some(L_Restaurantes)

\* C6: a line that matches the transaction grammar with an amount that does
\* not decode is dropped and the parse goes on: no error leaves
\* parse_statement / parse_bb_credit_card because of it.
C6_MalformedAmountDoesNotAbort ==
    error # ValueError("transaction")

\* C7: extract_total never raises: a declared-total line whose amount does
\* not decode gives the absent value.
C7_ExtractTotalNeverRaises ==
    error # ValueError("extract_total")

\* 'PADARIA DO ZE'
S_PADARIA_DO_ZE == <<"P", "A", "D", "A", "R", "I", "A", " ", "D", "O", " ", "Z", "E">>

\* C8: the generic text "Restaurantes" / "01/02 PADARIA DO ZE    R$ 25,00" /
\* "Total da Fatura R$ 25,00" yields one Transaction with date "01/02",
\* description "PADARIA DO ZE", category "Restaurantes", amount 25.00, with
\* total_captured 25.00, expected_total 25.00 and outcome Reconciled.
C8_ScenarioA ==
    (text = <<L_Restaurantes, L_Padaria, L_Total25>> /\ pc = "done") =>
        /\ Len(Get(result).transactions) = 1
        /\ Get(result).transactions[1].date = <<"0", "1", "/", "0", "2">>
        /\ Get(result).transactions[1].description = S_PADARIA_DO_ZE
        /\ Get(result).transactions[1].category = L_Restaurantes
        /\ Get(result).transactions[1].amount = 25 * Scale
        /\ Get(result).total_captured = 25 * Scale
        /\ Get(result).expected_total = Some(25 * Scale)
        /\ Outcome = "Reconciled"

\* C9: no line handed to the classifier begins with the page marker, so a
\* pagination line never sets current_category, whatever blanks led it in
\* the raw text and whichever dialect is active.
C9_NoPaginationLineReachesClassifier ==
    /\ \A i \in DOMAIN lines : ~StartsWith(lines[i], S_Pagina)
    /\ current_category # Some(S_Pagina)

\* the first position of t whose line satisfies P, Len(t) + 1 when none does
FirstWhere(t, P(_)) ==
    LET at == {i \in DOMAIN t : P(t[i])}
    IN  IF at = {} THEN Len(t) + 1 ELSE CHOOSE i \in at : \A j \in at : i <= j

HoldsStart(line) == Contains(line, S_DEMONSTRATIVO)
HoldsEnd(line) == Contains(line, S_RESUMO)
HoldsEndOnly(line) == HoldsEnd(line) /\ ~HoldsStart(line)

\* the trimmed non-blank lines of t strictly between positions s and e that
\* are not start-marker lines
Between(t, s, e) ==
    LET F[i \in 0..Len(t)] ==
          IF i = 0 THEN <<>>
          ELSE IF s < i /\ i < e /\ ~HoldsStart(t[i]) /\ Strip(t[i]) # <<>>
               THEN Append(F[i - 1], Strip(t[i]))
               ELSE F[i - 1]
    IN  F[Len(t)]

\* what the bank parser has read and emitted comes from the lines of sec only
OnlyFrom(sec) ==
    /\ lines = sec
    /\ \A j \in DOMAIN transactions :
          \E i \in DOMAIN sec :
              /\ BB_CREDIT_TRANSACTION_RE(sec[i]).matched
              /\ transactions[j].date = BB_CREDIT_TRANSACTION_RE(sec[i]).date
              /\ transactions[j].description =
                     Strip(BB_CREDIT_TRANSACTION_RE(sec[i]).description)
    /\ current_category # None =>
          \E i \in DOMAIN sec :
              \/ current_category = Some(sec[i])
              \/ current_category = Some(S_Refunds) /\ Contains(Upper(sec[i]), P_PAGAMENTOS)
    /\ sec = <<>> => (transactions = <<>> /\ current_category = None)

\* C12 as stated: in the bank dialect only the lines after the first line
\* that holds "DEMONSTRATIVO" and before the first line that holds
\* "RESUMO EM REAL" can set current_category or yield a Transaction; the
\* lines before the start marker, the marker lines and every line at or
\* after the end marker are discarded, and a text whose end marker precedes
\* its start marker yields no transactions.
C12_SectionBetweenFirstMarkers ==
    (dialect = "bb" /\ pc # "start") =>
        OnlyFrom(Between(text, FirstWhere(text, HoldsStart), FirstWhere(text, HoldsEnd)))

\* C12, amended: the section ends at the first line that holds
\* "RESUMO EM REAL" and does not hold "DEMONSTRATIVO"; a line that holds
\* both markers is read as a start marker and does not end the section.
\* Only the lines after the first start marker and before that end can set
\* current_category or yield a Transaction; start-marker lines are dropped;
\* a text whose end precedes its first start marker yields no transactions.
C12_SectionEndsAtEndOnlyLine ==
    (dialect = "bb" /\ pc # "start") =>
        OnlyFrom(Between(text, FirstWhere(text, HoldsStart), FirstWhere(text, HoldsEndOnly)))

\* the parser has ended with the transaction of the section, and the text
\* holds a transaction-shaped line after the end marker
C12_Witness ==
    /\ dialect = "bb" /\ pc = "parsed"
    /\ FirstWhere(text, HoldsStart) < FirstWhere(text, HoldsEndOnly)
    /\ \E i \in DOMAIN text :
          /\ i > FirstWhere(text, HoldsEndOnly)
          /\ BB_CREDIT_TRANSACTION_RE(Strip(text[i])).matched
    /\ Len(transactions) = 1

\* the description of a bank line read without a country token: what lies
\* between the DD.MM.YYYY date and the first of the two trailing numeric
\* fields, trimmed; <<>> when the line is not a date, a text and two fields
PlainDescription(line) ==
    LET fs == RunStart(line, Len(line), NumChars)
        ge == RunStart(line, fs - 1, Spaces) - 1
        gs == RunStart(line, ge, NumChars)
        vs == IF gs > 1 /\ line[gs - 1] = "-" THEN gs - 1 ELSE gs
    IN  IF /\ Len(line) >= 10
           /\ line[1] \in Digits /\ line[2] \in Digits /\ line[3] = "."
           /\ line[4] \in Digits /\ line[5] \in Digits /\ line[6] = "."
           /\ \A i \in 7..10 : line[i] \in Digits
           /\ fs <= Len(line) /\ ge < fs - 1 /\ gs <= ge /\ vs > 11
        THEN Strip(SubSeq(line, 11, vs - 1))
        ELSE <<>>

\* the text ends with a two-capital token of its own
EndsWithCountryToken(d) ==
    /\ Len(d) >= 2
    /\ d[Len(d) - 1] \in UpperAZ /\ d[Len(d)] \in UpperAZ
    /\ Len(d) = 2 \/ IsSpace(d[Len(d) - 2])

\* C13: in the bank dialect the country code of a transaction line is
\* optional: a line of the section made of a DD.MM.YYYY date, a description
\* with no separate two-letter country token and the two trailing numeric
\* fields is emitted as a Transaction whose country is "BR" and whose
\* description is the whole description text.
C13_BankCountryOptional ==
    \A i \in 1..idx :
        (/\ dialect = "bb"
         /\ PlainDescription(lines[i]) # <<>>
         /\ ~EndsWithCountryToken(PlainDescription(lines[i]))
         /\ ~HoldsIgnorePhrase("bb", lines[i])) =>
            \E j \in DOMAIN transactions :
                /\ transactions[j].date = SubSeq(lines[i], 1, 10)
                /\ transactions[j].description = PlainDescription(lines[i])
                /\ transactions[j].country = S_BR

\* C14: the prototype parse_statement (src/parser.py) and the packaged
\* generic parse_statement are equivalent: on the same text they return the
\* same ordered transactions, the same total_captured and the same
\* expected_total (and raise on the same texts); in particular both skip
\* every line that holds "PGTO DEBITO CONTA" in any letter case.
C14_PrototypeEquivalent ==
    proto_result # None =>
        Get(proto_result) =
            IF pc = "raised" THEN [raised |-> TRUE]
            ELSE [raised |-> FALSE, value |-> Get(result)]

------
(* The codec taken alone: encode an amount, decode the text                 *)

MaxCents == 99

\* whole reals with no thousands group, one group and two groups
CodecReals == {0, 1, 12, 999, 1000, 1234, 999999, 1000000, 1234567, 2147000}

\* amounts with exactly two decimal digits, in hundredths, of either sign
CodecCents ==
    LET mags == {r * 100 + c : r \in CodecReals, c \in 0..MaxCents}
    IN  mags \cup {-m : m \in mags}

CodecInit ==
    /\ amount \in {c * (Scale \div 100) : c \in CodecCents}
    /\ brl = None
    /\ decoded = None
    /\ text = <<>> /\ who_expended = <<>> /\ pc = "idle" /\ dialect = None
    /\ lines = <<>> /\ idx = 0 /\ transactions = <<>> /\ current_category = None
    /\ result = None /\ error = None /\ diff = None /\ stdout = <<>> /\ csv = None
    /\ returned = None
    /\ ProtoIdle
    /\ RefIdle

Encode ==
    /\ brl = None
    /\ brl' = Some(format_brl(amount))
    /\ UNCHANGED <<amount, decoded>>
    /\ UNCHANGED <<parseVars, refVars, protoVars>>

Decode ==
    /\ brl # None /\ decoded = None
    /\ decoded' = Some(parse_money_value(Get(brl)))
    /\ UNCHANGED <<amount, brl>>
    /\ UNCHANGED <<parseVars, refVars, protoVars>>

CodecNext == Encode \/ Decode

SpecCodec == CodecInit /\ [][CodecNext]_vars

\* C10: decoding the Brazilian-format text of an amount with two decimal
\* digits gives the amount back: parse_money_value(format_brl(x)) = x.
C10_RoundTrip ==
    decoded # None => (Get(decoded).ok /\ Get(decoded).v = amount)

\* a negative amount with two thousands groups has made the round trip
C10_Witness ==
    /\ decoded # None /\ Get(decoded).ok
    /\ amount < -1000000 * Scale /\ amount % Scale # 0
    /\ Cardinality({i \in DOMAIN Get(brl) : Get(brl)[i] = "."}) = 2
    /\ Get(brl)[1] = "-"

------------------------------------------------------------------------------
(* generate_references (src/budget_tracker/core/builder.py): the reference  *)
(* table of a transactions sheet.  A cell is a string, a row the sequence   *)
(* of its cells, read through the position of each header.                  *)

MaxRows == 3

\* 'Descrição', 'Comentário', 'Quem', 'Categoria'
H_Descricao == "Descric,a~o"
H_Comentario == "Comenta'rio"
H_Quem == "Quem"
H_Categoria == "Categoria"

\* headers.index(name) if name in headers else None
ColumnOf(hs, name) ==
    LET at == {i \in DOMAIN hs : hs[i] = name}
    IN  IF at = {} THEN None ELSE Some(CHOOSE i \in at : \A j \in at : i <= j)

\* row[col] if isinstance(col, int) else ""
CellOr(row, col) == IF col = None THEN "" ELSE row[Get(col)]

\* reference_map[key].append(category): a new key goes last
MapAppend(m, key, category) ==
    IF \E i \in DOMAIN m : m[i].key = key
    THEN [i \in DOMAIN m |->
            IF m[i].key = key
            THEN [m[i] EXCEPT !.categories = Append(@, category)]
            ELSE m[i]]
    ELSE Append(m, [key |-> key, categories |-> <<category>>])

\* a variant that counts the entries of a key, not its distinct categories
HasConflictByCount(categories_list) == Len(categories_list) > 1

\* len(set(categories_list)) > 1
HasConflict(categories_list) == Cardinality(Range(categories_list)) > 1

\* the first row of reference_table
REFERENCE_HEADER == <<H_Descricao, H_Comentario, H_Quem, H_Categoria>>

\* the sheets generate_references is run on: the four columns in the order
\* of the reference table; the four among a fifth, in another order; a sheet
\* with no 'Comentário' column; a sheet with no 'Categoria' column
HeaderLayouts ==
    {<<H_Descricao, H_Comentario, H_Quem, H_Categoria>>,
     <<"Data", H_Categoria, H_Quem, H_Descricao, H_Comentario>>,
     <<H_Descricao, H_Quem, H_Categoria>>,
     <<H_Descricao, H_Comentario, H_Quem>>}

\* keys that differ in the description, in the comment and in who
RefKeys ==
    {<<"PADARIA", "", "Ana">>, <<"PADARIA", "lanche", "Ana">>,
     <<"PADARIA", "", "Bia">>, <<"MERCADO", "", "Ana">>}

RefCategories == {"", "Restaurantes", "Supermercados"}

\* the row of a sheet with headers hs holding the key k and the category c
RowFor(hs, k, c) ==
    [i \in DOMAIN hs |->
        IF hs[i] = H_Descricao THEN k[1]
        ELSE IF hs[i] = H_Comentario THEN k[2]
        ELSE IF hs[i] = H_Quem THEN k[3]
        ELSE IF hs[i] = H_Categoria THEN c
        ELSE "01/02"]

RefInit ==
    /\ headers \in HeaderLayouts
    /\ data_rows \in SeqsUpTo({RowFor(headers, k, c) : k \in RefKeys, c \in RefCategories},
                              MaxRows)
    /\ ref_pc = "start" /\ ref_i = 0
    /\ reference_map = <<>> /\ reference_table = <<>> /\ conflicts = <<>>
    /\ ref_error = None /\ references_data = None
    /\ ProtoIdle
    /\ amount = 0 /\ brl = None /\ decoded = None
    /\ text = <<>> /\ who_expended = <<>> /\ pc = "idle" /\ dialect = None
    /\ lines = <<>> /\ idx = 0 /\ transactions = <<>> /\ current_category = None
    /\ result = None /\ error = None /\ diff = None /\ stdout = <<>> /\ csv = None
    /\ returned = None

\* the guard on data_rows, the column indices, the empty reference_map
RefBegin ==
    /\ ref_pc = "start"
    /\ IF data_rows = <<>>
       THEN /\ ref_pc' = "raised"
            /\ ref_error' = ValueError("Missing transactions data.")
       ELSE /\ ref_pc' = "group"
            /\ UNCHANGED ref_error
    /\ UNCHANGED <<headers, data_rows, ref_i, reference_map, reference_table,
                   conflicts, references_data>>
    /\ UNCHANGED <<parseVars, codecVars, protoVars>>

\* one pass of the loop over data_rows; with no 'Categoria' column
\* row[col_category] is row[None], a TypeError
RefGroupStep ==
    /\ ref_pc = "group" /\ ref_i < Len(data_rows)
    /\ LET row == data_rows[ref_i + 1]
           col_category == ColumnOf(headers, H_Categoria)
           category == row[Get(col_category)]
           key == <<CellOr(row, ColumnOf(headers, H_Descricao)),
                    CellOr(row, ColumnOf(headers, H_Comentario)),
                    CellOr(row, ColumnOf(headers, H_Quem))>>
       IN  IF col_category = None
           THEN /\ ref_pc' = "raised"
                /\ ref_error' = TypeError("row[col_category]")
                /\ UNCHANGED <<ref_i, reference_map>>
           ELSE /\ reference_map' = IF category = "" THEN reference_map
                                    ELSE MapAppend(reference_map, key, category)
                /\ ref_i' = ref_i + 1
                /\ UNCHANGED <<ref_pc, ref_error>>
    /\ UNCHANGED <<headers, data_rows, reference_table, conflicts, references_data>>
    /\ UNCHANGED <<parseVars, codecVars, protoVars>>

\* between the loops: reference_table holds its header, conflicts is empty
RefGroupEnd ==
    /\ ref_pc = "group" /\ ref_i = Len(data_rows)
    /\ reference_table' = <<REFERENCE_HEADER>>
    /\ conflicts' = <<>>
    /\ ref_i' = 0
    /\ ref_pc' = "build"
    /\ UNCHANGED <<headers, data_rows, reference_map, ref_error, references_data>>
    /\ UNCHANGED <<parseVars, codecVars, protoVars>>

\* one pass of the loop over reference_map.items()
RefBuildStep ==
    /\ ref_pc = "build" /\ ref_i < Len(reference_map)
    /\ LET key == reference_map[ref_i + 1].key
           categories_list == reference_map[ref_i + 1].categories
       IN  IF HasConflict(categories_list)
           THEN /\ conflicts' = Append(conflicts, key)
                /\ UNCHANGED reference_table
           ELSE /\ reference_table' = Append(reference_table,
                                             key \o <<categories_list[1]>>)
                /\ UNCHANGED conflicts
    /\ ref_i' = ref_i + 1
    /\ UNCHANGED <<headers, data_rows, ref_pc, reference_map, ref_error,
                   references_data>>
    /\ UNCHANGED <<parseVars, codecVars, protoVars>>

\* after the loops: ValueError when conflicts is not empty, else the table
RefEnd ==
    /\ ref_pc = "build" /\ ref_i = Len(reference_map)
    /\ IF conflicts # <<>>
       THEN /\ ref_pc' = "raised"
            /\ ref_error' = ValueError("Conflict found")
            /\ UNCHANGED references_data
       ELSE /\ ref_pc' = "done"
            /\ references_data' = Some(reference_table)
            /\ UNCHANGED ref_error
    /\ UNCHANGED <<headers, data_rows, ref_i, reference_map, reference_table,
                   conflicts>>
    /\ UNCHANGED <<parseVars, codecVars, protoVars>>

RefNext ==
    \/ RefBegin
    \/ RefGroupStep
    \/ RefGroupEnd
    \/ RefBuildStep
    \/ RefEnd

SpecRefs == RefInit /\ [][RefNext]_vars

\* the four columns the function reads are all there
HasAllHeaders ==
    {H_Descricao, H_Comentario, H_Quem, H_Categoria} \subseteq Range(headers)

\* the cell of a row under a header
Field(row, name) == row[CHOOSE i \in DOMAIN headers : headers[i] = name]

\* (description, comment, who) of a row
KeyOf(row) == <<Field(row, H_Descricao), Field(row, H_Comentario), Field(row, H_Quem)>>

\* the rows with a non-empty category
Categorized == {i \in DOMAIN data_rows : Field(data_rows[i], H_Categoria) # ""}

\* the distinct non-empty categories a key occurs with
CategoriesOf(k) ==
    {Field(data_rows[i], H_Categoria) : i \in {j \in Categorized : KeyOf(data_rows[j]) = k}}

\* the distinct keys among the rows with a non-empty category
KeysSeen == {KeyOf(data_rows[i]) : i \in Categorized}

\* C11: for non-empty data_rows under headers that include the four
\* columns, generate_references raises ValueError exactly when some key
\* (description, comment, who) occurs with two or more distinct non-empty
\* categories; otherwise it returns the header row followed by exactly one
\* row per distinct key among the rows with a non-empty category, each with
\* that key's single category; rows with an empty category add nothing.
C11_ReferencesOnePerKey ==
    (ref_pc \in {"done", "raised"} /\ data_rows # <<>> /\ HasAllHeaders) =>
        /\ ref_pc = "raised" <=> \E k \in KeysSeen : Cardinality(CategoriesOf(k)) >= 2
        /\ ref_pc = "raised" =>
              /\ ref_error = ValueError("Conflict found")
              /\ references_data = None
        /\ ref_pc = "done" =>
              LET table == Get(references_data) IN
              /\ ref_error = None
              /\ table[1] = REFERENCE_HEADER
              /\ Len(table) = 1 + Cardinality(KeysSeen)
              /\ \A k \in KeysSeen :
                    \E i \in 2..Len(table) :
                        /\ SubSeq(table[i], 1, 3) = k
                        /\ CategoriesOf(k) = {table[i][4]}

\* a table has been returned for three rows of one key: two with the same
\* category, one with none
C11_Witness ==
    /\ ref_pc = "done" /\ HasAllHeaders
    /\ Len(data_rows) = 3
    /\ Cardinality(Categorized) = 2
    /\ Cardinality(KeysSeen) = 1
    /\ \E i \in DOMAIN data_rows : i \notin Categorized /\ KeyOf(data_rows[i]) \in KeysSeen
    /\ Len(Get(references_data)) = 2

==============================================================================
